---- MODULE Spec2Model ----
(***************************************************************************)
(* A model of retch (src/src/main.rs): a system-fetch utility that loads a *)
(* [Display] table of five toggles, queries the host and prints a report.  *)
(*                                                                         *)
(* The host (config file, CPU list, /etc/os-release, uptime, memory and    *)
(* battery driver) is the state the program reads; main is a linear pass   *)
(* over it.  Text is modelled as TLA+ strings, so that a format string of  *)
(* the source is a concatenation here and a line break is "\n".            *)
(***************************************************************************)
EXTENDS Integers, Sequences, FiniteSets, TLC

VARIABLES
    configFile,     \* the file at src/.config.toml, as the loader sees it
    cpus,           \* system.cpus(): a sequence of [brand, frequency]
    osHost,         \* [target_os, os_release]
    uptimeSecs,     \* System::uptime()
    totalMemory,    \* system.total_memory(), in bytes
    batteryHost,    \* the battery driver: manager, enumeration, devices
    pc,             \* position in main, or in the function under study
    config,         \* None, or Some(DisplayConfig) once loaded
    report_lines,   \* main's Vec of batched lines
    stdout,         \* every byte written to standard output so far
    exit,           \* None while running, Some(Result) once main returned
    ret             \* None, or Some(value) returned by the function under study

vars == <<configFile, cpus, osHost, uptimeSecs, totalMemory, batteryHost,
          pc, config, report_lines, stdout, exit, ret>>

hostVars == <<configFile, cpus, osHost, uptimeSecs, totalMemory, batteryHost>>

---------------------------------------------------------------------------
(* Option and Result values.  A payload is wrapped in a tuple so that      *)
(* values of both shapes compare without a type clash.                     *)

None == <<>>
Some(x) == <<x>>
IsSome(o) == Len(o) = 1
Unwrap(o) == o[1]

Ok(v) == [ok |-> TRUE, val |-> <<v>>, err |-> <<>>]
Err(e) == [ok |-> FALSE, val |-> <<>>, err |-> <<e>>]

---------------------------------------------------------------------------
(* Bounds of the model.                                                    *)

MaxDevices == 2     \* longest battery enumeration
MaxDays == 2        \* largest whole number of days of uptime
MaxHours == 2       \* largest whole number of hours of a battery estimate
Window == 12        \* byte counts taken on each side of a power of 1024

---------------------------------------------------------------------------
(* Text helpers.                                                           *)

RECURSIVE Join(_, _)
\* [String]::join(sep)
Join(parts, sep) ==
    IF parts = <<>> THEN ""
    ELSE IF Len(parts) = 1 THEN parts[1]
    ELSE parts[1] \o sep \o Join(Tail(parts), sep)

\* println!("{}", s): the text and a line break
Println(out, s) == out \o s \o "\n"

\* Rust's saturating float-to-integer casts, on whole numbers (the upper
\* end of u32 is beyond every value of the model)
AsU32(x) == IF x < 0 THEN 0 ELSE x
AsU8(x) == IF x < 0 THEN 0 ELSE IF x > 255 THEN 255 ELSE x

\* Division truncating toward zero, and the remainder with the dividend's
\* sign, as Rust's / and % on floats followed by a cast behave on whole
\* numbers.
TruncDiv(a, b) == IF a >= 0 THEN a \div b ELSE -((-a) \div b)
TruncRem(a, b) == a - b * TruncDiv(a, b)

---------------------------------------------------------------------------
(* OS facts.                                                               *)

\* A line of /etc/os-release: whether it starts with "PRETTY_NAME=", and
\* what is left of it once that prefix and the surrounding double quotes
\* are trimmed.
OsLine(pretty, value) == [pretty |-> pretty, value |-> value]

RECURSIVE FirstPrettyName(_)
FirstPrettyName(lines) ==
    IF lines = <<>> THEN None
    ELSE IF Head(lines).pretty THEN Some(Head(lines).value)
    ELSE FirstPrettyName(Tail(lines))

\* os_release is None when the file cannot be read, else Some(lines)
get_linux_distribution(os_release) ==
    IF IsSome(os_release) THEN FirstPrettyName(Unwrap(os_release)) ELSE None

get_os_info(host) ==
    IF host.target_os = "linux"
    THEN LET d == get_linux_distribution(host.os_release)
         IN IF IsSome(d) THEN Unwrap(d) ELSE "Linux (Unknown Distro)"
    ELSE IF host.target_os = "windows" THEN "Windows"
    ELSE IF host.target_os = "macos" THEN "macOS"
    ELSE "Unknown OS"

---------------------------------------------------------------------------
(* Hardware facts.                                                         *)

get_total_memory_gb_single_divide(total_memory_bt) ==
    total_memory_bt \div (1000 * 1000 * 1000)

RoundDiv1024(n) == n \div 1024 + (IF n % 1024 >= 512 THEN 1 ELSE 0)

get_total_memory_gb_rounding(total_memory_bt) ==
    LET total_memory_kb == RoundDiv1024(total_memory_bt)
        total_memory_mb == RoundDiv1024(total_memory_kb)
    IN RoundDiv1024(total_memory_mb)

get_total_memory_gb(total_memory_bt) ==
    LET total_memory_kb == total_memory_bt \div 1024
        total_memory_mb == total_memory_kb \div 1024
    IN total_memory_mb \div 1024

format_uptime_hours_only_when_nonzero(uptime_seconds) ==
    LET days == uptime_seconds \div 86400
        hours == (uptime_seconds % 86400) \div 3600
        minutes == (uptime_seconds % 3600) \div 60
        p1 == IF days > 0 THEN <<ToString(days) \o "d">> ELSE <<>>
        p2 == IF hours > 0 THEN Append(p1, ToString(hours) \o "h") ELSE p1
        uptime_parts == Append(p2, ToString(minutes) \o "m")
    IN Join(uptime_parts, " ")

format_uptime(uptime_seconds) ==
    LET days == uptime_seconds \div 86400
        hours == (uptime_seconds % 86400) \div 3600
        minutes == (uptime_seconds % 3600) \div 60
        p1 == IF days > 0 THEN <<ToString(days) \o "d">> ELSE <<>>
        p2 == IF hours > 0 \/ p1 # <<>>
              THEN Append(p1, ToString(hours) \o "h") ELSE p1
        uptime_parts == Append(p2, ToString(minutes) \o "m")
    IN Join(uptime_parts, " ")

\* format!("{:.2}", mhz as f64 / 1000.0): the frequency in GHz with two
\* decimals.  A frequency whose last digit is 5 is a decimal tie that the
\* binary value of the quotient decides; CpuLists holds no such value.
FormatGHz(frequency_mhz) ==
    LET hundredths == (frequency_mhz + 5) \div 10
        frac == hundredths % 100
    IN ToString(hundredths \div 100) \o "."
         \o (IF frac < 10 THEN "0" ELSE "") \o ToString(frac)

get_cpu_info(cpu_list) ==
    IF cpu_list = <<>> THEN None
    ELSE LET cpu == Head(cpu_list)
         IN Some("CPU Model: " \o cpu.brand \o " @ "
                   \o FormatGHz(cpu.frequency) \o " GHz")

---------------------------------------------------------------------------
(* Battery facts.                                                          *)

States == {"Charging", "Discharging", "Full", "Empty", "Unknown"}

\* One item of the batteries iterator: a readable battery, or an error.
\* soc_permille is state_of_charge() in thousandths; the estimates are
\* Options of whole seconds.
Battery(soc, state, ttf, tte) ==
    [ok |-> TRUE, errno |-> 0, soc_permille |-> soc, state |-> state,
     time_to_full |-> ttf, time_to_empty |-> tte]
DeviceError(errno) ==
    [ok |-> FALSE, errno |-> errno, soc_permille |-> 0, state |-> "Unknown",
     time_to_full |-> None, time_to_empty |-> None]

\* The driver: whether Manager::new() and manager.batteries() succeed, and
\* the items the iterator yields.
Driver(manager_ok, batteries_ok, devices) ==
    [manager_ok |-> manager_ok, batteries_ok |-> batteries_ok,
     devices |-> devices]

\* the state's label (the match's arms)
state_label(battery) ==
    IF battery.state = "Charging" THEN "Charging"
    ELSE IF battery.state = "Discharging" THEN "Discharging"
    ELSE IF battery.state = "Full" THEN "Full"
    ELSE IF battery.state = "Empty" THEN "Empty"
    ELSE "Unknown"

\* " ({}h {}m <what>)" of an estimate in seconds
FormatEstimate(seconds, what) ==
    LET hours == AsU32(TruncDiv(seconds, 3600))
        minutes == AsU32(TruncDiv(TruncRem(seconds, 3600), 60))
    IN " (" \o ToString(hours) \o "h " \o ToString(minutes) \o "m "
         \o what \o ")"

time_string_any_estimate(battery) ==
    IF IsSome(battery.time_to_full)
    THEN FormatEstimate(Unwrap(battery.time_to_full), "until full")
    ELSE IF IsSome(battery.time_to_empty)
    THEN FormatEstimate(Unwrap(battery.time_to_empty), "remaining")
    ELSE ""

time_string_total_minutes(battery) ==
    LET fmt(seconds, what) ==
            " (" \o ToString(seconds \div 3600) \o "h "
              \o ToString(seconds \div 60) \o "m " \o what \o ")"
    IN IF battery.state = "Charging" /\ IsSome(battery.time_to_full)
       THEN fmt(Unwrap(battery.time_to_full), "until full")
       ELSE IF battery.state = "Discharging" /\ IsSome(battery.time_to_empty)
       THEN fmt(Unwrap(battery.time_to_empty), "remaining")
       ELSE ""

time_string(battery) ==
    IF battery.state = "Charging"
    THEN IF IsSome(battery.time_to_full)
         THEN FormatEstimate(Unwrap(battery.time_to_full), "until full")
         ELSE ""
    ELSE IF battery.state = "Discharging"
    THEN IF IsSome(battery.time_to_empty)
         THEN FormatEstimate(Unwrap(battery.time_to_empty), "remaining")
         ELSE ""
    ELSE ""

\* the line of one readable battery
battery_line(battery) ==
    LET percentage == (battery.soc_permille * 100) \div 1000
    IN "Battery: " \o ToString(AsU8(percentage)) \o "% ("
         \o state_label(battery) \o ")" \o time_string(battery)

BatteryManagerError == "battery::Error (Manager::new)"
BatteryIteratorError == "battery::Error (Manager::batteries)"
BatteryDeviceError(errno) == "battery::Error (device " \o ToString(errno) \o ")"

RECURSIVE FirstReadable(_)
FirstReadable(devices) ==
    IF devices = <<>> THEN Ok("Battery: Not detected")
    ELSE IF Head(devices).ok THEN Ok(battery_line(Head(devices)))
    ELSE FirstReadable(Tail(devices))

get_battery_info_skipping_errors(driver) ==
    IF ~driver.manager_ok THEN Err(BatteryManagerError)
    ELSE IF ~driver.batteries_ok THEN Err(BatteryIteratorError)
    ELSE FirstReadable(driver.devices)

get_battery_info_no_battery_is_error(driver) ==
    IF ~driver.manager_ok THEN Err(BatteryManagerError)
    ELSE IF ~driver.batteries_ok THEN Err(BatteryIteratorError)
    ELSE IF driver.devices = <<>> THEN Err(BatteryIteratorError)
    ELSE LET battery == Head(driver.devices)
         IN IF ~battery.ok THEN Err(BatteryDeviceError(battery.errno))
            ELSE Ok(battery_line(battery))

\* The loop body returns on its first iteration, so only the head of the
\* iterator is ever taken.
get_battery_info(driver) ==
    IF ~driver.manager_ok THEN Err(BatteryManagerError)
    ELSE IF ~driver.batteries_ok THEN Err(BatteryIteratorError)
    ELSE IF driver.devices = <<>> THEN Ok("Battery: Not detected")
    ELSE LET battery == Head(driver.devices)
         IN IF ~battery.ok THEN Err(BatteryDeviceError(battery.errno))
            ELSE Ok(battery_line(battery))

---------------------------------------------------------------------------
(* Configuration.                                                          *)

\* DisplayConfig's fields, in declaration order
Keys == <<"cpu_model", "os", "uptime", "ram", "battery">>
KeySet == {Keys[i] : i \in 1..Len(Keys)}

\* A value of the [Display] table as the TOML parser hands it over: a
\* boolean, a string, a value of another type, or no entry for the key.
RawBool(b) == [kind |-> "bool", b |-> b, s |-> ""]
RawStr(s) == [kind |-> "str", b |-> FALSE, s |-> s]
RawInt == [kind |-> "int", b |-> FALSE, s |-> ""]
Missing == [kind |-> "missing", b |-> FALSE, s |-> ""]

\* The file: whether it can be read, whether its text is TOML, whether it
\* holds a [Display] table, that table, and whether the table holds a key
\* DisplayConfig does not name.
ConfigFile(readable, toml_ok, has_display, display, extra_key) ==
    [readable |-> readable, toml_ok |-> toml_ok,
     has_display |-> has_display, display |-> display,
     extra_key |-> extra_key]

parse_bool_ignoring_case(s) ==
    IF s \in {"true", "True"} THEN Ok(TRUE)
    ELSE IF s \in {"false", "False"} THEN Ok(FALSE)
    ELSE Err("invalid boolean string: " \o s)

\* str::parse::<bool>() inside visit_str
parse_bool(s) ==
    IF s = "true" THEN Ok(TRUE)
    ELSE IF s = "false" THEN Ok(FALSE)
    ELSE Err("invalid boolean string: " \o s)

\* deserialize_any(BoolVisitor): visit_bool, visit_str / visit_string, and
\* the Visitor trait's default for every other type
bool_from_str_or_bool(raw) ==
    IF raw.kind = "bool" THEN Ok(raw.b)
    ELSE IF raw.kind = "str" THEN parse_bool(raw.s)
    ELSE Err("invalid type, expected a boolean or a boolean-like string")

\* the derived Deserialize of one field
DecodeField(display, key) ==
    IF display[key].kind = "missing" THEN Err("missing field " \o key)
    ELSE bool_from_str_or_bool(display[key])

\* the derived Deserialize of DisplayConfig: every field decoded, unknown
\* keys ignored, any field's error the error of the whole
DecodeDisplay(display) ==
    IF \A k \in KeySet : DecodeField(display, k).ok
    THEN Ok([k \in KeySet |-> Unwrap(DecodeField(display, k).val)])
    ELSE Err("toml::de::Error")

load_config(file) ==
    IF ~file.readable THEN Err("io::Error")
    ELSE IF ~file.toml_ok \/ ~file.has_display THEN Err("toml::de::Error")
    ELSE DecodeDisplay(file.display)

---------------------------------------------------------------------------
(* The hosts the model runs on.                                            *)

Flags == [KeySet -> {RawBool(TRUE), RawBool(FALSE)}]

WellFormed(display) == ConfigFile(TRUE, TRUE, TRUE, display, FALSE)

AllShown == [k \in KeySet |-> RawBool(TRUE)]

\* files that do not load: unreadable, not TOML, no [Display] table, a key
\* left out, a string that is no boolean
BrokenFiles ==
    { ConfigFile(FALSE, TRUE, TRUE, AllShown, FALSE),
      ConfigFile(TRUE, FALSE, TRUE, AllShown, FALSE),
      ConfigFile(TRUE, TRUE, FALSE, AllShown, FALSE),
      WellFormed([AllShown EXCEPT !["ram"] = Missing]),
      WellFormed([AllShown EXCEPT !["os"] = RawStr("maybe")]) }

MainConfigFiles == {WellFormed(d) : d \in Flags} \cup BrokenFiles

RawValues ==
    { RawBool(TRUE), RawBool(FALSE), RawStr("true"), RawStr("false"),
      RawStr("maybe"), RawStr("True"), RawInt, Missing }

AllConfigFiles ==
    { ConfigFile(TRUE, TRUE, TRUE, d, x) :
          d \in [KeySet -> RawValues], x \in BOOLEAN } \cup BrokenFiles

Cpu(brand, frequency) == [brand |-> brand, frequency |-> frequency]

CpuLists ==
    { <<>>,
      <<Cpu("AMD Ryzen 7 5800X", 3800)>>,
      <<Cpu("Intel Core i5-8250U", 1608), Cpu("AMD Ryzen 7 5800X", 3800)>> }

OsHost(target_os, os_release) ==
    [target_os |-> target_os, os_release |-> os_release]

OsHosts ==
    { OsHost("linux", None),
      OsHost("linux", Some(<<OsLine(FALSE, "ID=arch")>>)),
      OsHost("linux", Some(<<OsLine(FALSE, "NAME=Arch"),
                             OsLine(TRUE, "Arch Linux"),
                             OsLine(TRUE, "Second")>>)),
      OsHost("windows", None),
      OsHost("macos", None),
      OsHost("freebsd", None) }

GiB == 1024 * 1024 * 1024

MainUptimes == {59, 90000}
MainMemories == {GiB - 1, GiB}

\* uptimes on each side of every unit's boundary
UptimeInputs ==
    { d * 86400 + h * 3600 + m * 60 + sec :
          d \in 0..MaxDays, h \in {0, 1, 23}, m \in {0, 1, 59},
          sec \in {0, 1, 59} }

\* byte counts around 0, around each power of 1024 and just below 2 GiB
MemoryInputs ==
    (0..Window)
      \cup UNION { (b - Window)..(b + Window) : b \in {1024, 1024 * 1024, GiB} }
      \cup { 2 * (GiB - 1) - k : k \in 0..Window }

EstimateInputs ==
    { h * 3600 + m * 60 + sec :
          h \in 0..MaxHours, m \in {0, 1, 59}, sec \in {0, 1, 59} }

Estimates == {None} \cup {Some(t) : t \in EstimateInputs}

\* every readable battery: charge, state, and each estimate there or not
Batteries ==
    { Battery(soc, st, ttf, tte) :
          soc \in {0, 999, 1000}, st \in States,
          ttf \in Estimates, tte \in Estimates }

\* the items an enumeration is built from
MainDevices ==
    { DeviceError(1), Battery(505, "Discharging", None, Some(3661)) }
Devices ==
    MainDevices \cup { DeviceError(2), Battery(1000, "Full", None, None) }

Enumerations(devices) == UNION { [1..n -> devices] : n \in 0..MaxDevices }

\* drivers that fail as a whole, drivers with an enumeration of `devices`,
\* and drivers with one of `batteries` alone
Drivers(devices, batteries) ==
    { Driver(FALSE, TRUE, <<>>), Driver(TRUE, FALSE, <<>>) }
      \cup { Driver(TRUE, TRUE, e) : e \in Enumerations(devices) }
      \cup { Driver(TRUE, TRUE, <<b>>) : b \in batteries }

MainDrivers == Drivers(MainDevices, {})
AllDrivers == Drivers(Devices, Batteries)

---------------------------------------------------------------------------
(* main: one linear pass.                                                  *)

Flag(key) == Unwrap(config)[key]

\* the state before main's first statement, on every file and host
InitMain ==
    /\ configFile \in MainConfigFiles
    /\ cpus \in CpuLists
    /\ osHost \in OsHosts
    /\ uptimeSecs \in MainUptimes
    /\ totalMemory \in MainMemories
    /\ batteryHost \in MainDrivers
    /\ pc = "main"
    /\ config = None
    /\ report_lines = <<>>
    /\ stdout = ""
    /\ exit = None
    /\ ret = None

\* let config = load_config("src/.config.toml")?;
LoadConfig ==
    /\ pc = "main"
    /\ LET r == load_config(configFile)
       IN IF r.ok
          THEN /\ config' = Some(Unwrap(r.val))
               /\ pc' = "snapshot"
               /\ exit' = exit
          ELSE /\ config' = config
               /\ pc' = "exited"
               /\ exit' = Some(Err(Unwrap(r.err)))
    /\ UNCHANGED <<hostVars, report_lines, stdout, ret>>

\* the hardware snapshot: the CPU line, printed at once
PrintCpu ==
    /\ pc = "snapshot"
    /\ stdout' = IF Flag("cpu_model") /\ IsSome(get_cpu_info(cpus))
                 THEN Println(stdout, Unwrap(get_cpu_info(cpus)))
                 ELSE stdout
    /\ pc' = "collect"
    /\ UNCHANGED <<hostVars, config, report_lines, exit, ret>>

OsReportLine == "OS: " \o get_os_info(osHost)
UptimeReportLine == "Uptime: " \o format_uptime(uptimeSecs)
RamReportLine == "Ram: " \o ToString(get_total_memory_gb(totalMemory)) \o " Gb"

CollectFacts_ram_first ==
    /\ pc = "collect"
    /\ LET l1 == IF Flag("ram") THEN Append(report_lines, RamReportLine)
                 ELSE report_lines
           l2 == IF Flag("os") THEN Append(l1, OsReportLine) ELSE l1
           l3 == IF Flag("uptime") THEN Append(l2, UptimeReportLine) ELSE l2
       IN report_lines' = l3
    /\ pc' = "battery"
    /\ UNCHANGED <<hostVars, config, stdout, exit, ret>>

\* the three pushes that cannot fail
CollectFacts ==
    /\ pc = "collect"
    /\ LET l1 == IF Flag("os") THEN Append(report_lines, OsReportLine)
                 ELSE report_lines
           l2 == IF Flag("uptime") THEN Append(l1, UptimeReportLine) ELSE l1
           l3 == IF Flag("ram") THEN Append(l2, RamReportLine) ELSE l2
       IN report_lines' = l3
    /\ pc' = "battery"
    /\ UNCHANGED <<hostVars, config, stdout, exit, ret>>

CollectBattery_flushing_on_error ==
    /\ pc = "battery"
    /\ IF Flag("battery")
       THEN LET r == get_battery_info(batteryHost)
            IN IF r.ok
               THEN /\ report_lines' = Append(report_lines, Unwrap(r.val))
                    /\ pc' = "print"
                    /\ exit' = exit
                    /\ stdout' = stdout
               ELSE /\ report_lines' = report_lines
                    /\ pc' = "exited"
                    /\ exit' = Some(Err(Unwrap(r.err)))
                    /\ stdout' = IF report_lines # <<>>
                                 THEN Println(stdout, Join(report_lines, "\n"))
                                 ELSE stdout
       ELSE /\ report_lines' = report_lines
            /\ pc' = "print"
            /\ exit' = exit
            /\ stdout' = stdout
    /\ UNCHANGED <<hostVars, config, ret>>

\* report_lines.push(get_battery_info()?), when battery is enabled
CollectBattery ==
    /\ pc = "battery"
    /\ IF Flag("battery")
       THEN LET r == get_battery_info(batteryHost)
            IN IF r.ok
               THEN /\ report_lines' = Append(report_lines, Unwrap(r.val))
                    /\ pc' = "print"
                    /\ exit' = exit
               ELSE /\ report_lines' = report_lines
                    /\ pc' = "exited"
                    /\ exit' = Some(Err(Unwrap(r.err)))
       ELSE /\ report_lines' = report_lines
            /\ pc' = "print"
            /\ exit' = exit
    /\ UNCHANGED <<hostVars, config, stdout, ret>>

\* the single trailing write, and Ok(())
PrintReport ==
    /\ pc = "print"
    /\ stdout' = IF report_lines # <<>>
                 THEN Println(stdout, Join(report_lines, "\n"))
                 ELSE stdout
    /\ pc' = "exited"
    /\ exit' = Some(Ok("()"))
    /\ UNCHANGED <<hostVars, config, report_lines, ret>>

Next == LoadConfig \/ PrintCpu \/ CollectFacts \/ CollectBattery \/ PrintReport

Spec == InitMain /\ [][Next]_vars

---------------------------------------------------------------------------
(* Each function on its own: the state before a call, on every input of    *)
(* its input set, and the call.                                            *)

DefaultFile == WellFormed(AllShown)
DefaultDriver == Driver(TRUE, TRUE, <<>>)

\* what a call leaves alone: it writes nothing and main is not running
Idle ==
    /\ config = None
    /\ report_lines = <<>>
    /\ stdout = ""
    /\ exit = None
    /\ ret = None

Return(value) ==
    /\ ret' = Some(value)
    /\ pc' = "returned"
    /\ UNCHANGED <<hostVars, config, report_lines, stdout, exit>>

InitUptime ==
    /\ configFile = DefaultFile
    /\ cpus = <<>>
    /\ osHost = OsHost("linux", None)
    /\ uptimeSecs \in UptimeInputs
    /\ totalMemory = 0
    /\ batteryHost = DefaultDriver
    /\ pc = "format_uptime"
    /\ Idle

CallFormatUptime ==
    /\ pc = "format_uptime"
    /\ Return(format_uptime(uptimeSecs))

SpecUptime == InitUptime /\ [][CallFormatUptime]_vars

InitMemory ==
    /\ configFile = DefaultFile
    /\ cpus = <<>>
    /\ osHost = OsHost("linux", None)
    /\ uptimeSecs = 0
    /\ totalMemory \in MemoryInputs
    /\ batteryHost = DefaultDriver
    /\ pc = "get_total_memory_gb"
    /\ Idle

CallGetTotalMemoryGb ==
    /\ pc = "get_total_memory_gb"
    /\ Return(get_total_memory_gb(totalMemory))

SpecMemory == InitMemory /\ [][CallGetTotalMemoryGb]_vars

InitBattery ==
    /\ configFile = DefaultFile
    /\ cpus = <<>>
    /\ osHost = OsHost("linux", None)
    /\ uptimeSecs = 0
    /\ totalMemory = 0
    /\ batteryHost \in AllDrivers
    /\ pc = "get_battery_info"
    /\ Idle

CallGetBatteryInfo ==
    /\ pc = "get_battery_info"
    /\ Return(get_battery_info(batteryHost))

SpecBattery == InitBattery /\ [][CallGetBatteryInfo]_vars

InitConfig ==
    /\ configFile \in AllConfigFiles
    /\ cpus = <<>>
    /\ osHost = OsHost("linux", None)
    /\ uptimeSecs = 0
    /\ totalMemory = 0
    /\ batteryHost = DefaultDriver
    /\ pc = "load_config"
    /\ Idle

CallLoadConfig ==
    /\ pc = "load_config"
    /\ Return(load_config(configFile))

SpecConfig == InitConfig /\ [][CallLoadConfig]_vars

---------------------------------------------------------------------------
(* Properties of format_uptime, under SpecUptime.                          *)

Returned == pc = "returned"

\* the segments the uptime rule asks for, each with its separator
UptimeSegments(sec) ==
    LET days == sec \div 86400
        hours == (sec % 86400) \div 3600
        minutes == (sec % 3600) \div 60
    IN (IF days > 0 THEN ToString(days) \o "d " ELSE "")
         \o (IF days > 0 \/ hours > 0 THEN ToString(hours) \o "h " ELSE "")
         \o ToString(minutes) \o "m"

\* C3: format_uptime returns the days segment only when days > 0, the hours
\* segment exactly when days > 0 or hours > 0, and the minutes segment
\* always, joined by single spaces; 0 and 59 give "0m", 60 gives "1m", 3661
\* gives "1h 1m", 90000 gives "1d 1h 0m", and no output is "0h <n>m".
C3_UptimeFormat ==
    Returned =>
        /\ ret = Some(UptimeSegments(uptimeSecs))
        /\ uptimeSecs \in {0, 59} => ret = Some("0m")
        /\ uptimeSecs = 60 => ret = Some("1m")
        /\ uptimeSecs = 3661 => ret = Some("1h 1m")
        /\ uptimeSecs = 90000 => ret = Some("1d 1h 0m")
        /\ ret \notin { Some("0h " \o ToString(m) \o "m") : m \in 0..59 }

C3_Witness ==
    /\ Returned
    /\ uptimeSecs = 90000
    /\ ret = Some("1d 1h 0m")

---------------------------------------------------------------------------
(* Properties of get_total_memory_gb, under SpecMemory.                    *)

\* C8: get_total_memory_gb is the byte count divided by 1024 three times,
\* truncating each time; it is non-decreasing in the byte count, 0 for 0
\* and for 1024^3 - 1 bytes, and 1 for 1024^3 bytes.
C8_MemoryConversion ==
    Returned =>
        /\ ret = Some(((totalMemory \div 1024) \div 1024) \div 1024)
        /\ totalMemory \in {0, GiB - 1} => ret = Some(0)
        /\ totalMemory = GiB => ret = Some(1)
        /\ \A smaller \in MemoryInputs :
               smaller <= totalMemory =>
                   get_total_memory_gb(smaller) <= Unwrap(ret)

C8_Witness ==
    /\ Returned
    /\ totalMemory = GiB
    /\ ret = Some(1)
    /\ get_total_memory_gb(GiB - 1) = 0

\* C10: dividing by 1024 three times, truncating each time, gives what one
\* integer division by 1024^3 gives.
C10_SameAsSingleDivision ==
    Returned => Unwrap(ret) = totalMemory \div GiB

\* a byte count that loses a remainder at each of the three divisions
C10_Witness ==
    /\ Returned
    /\ totalMemory % 1024 # 0
    /\ (totalMemory \div 1024) % 1024 # 0
    /\ ((totalMemory \div 1024) \div 1024) % 1024 # 0
    /\ Unwrap(ret) = totalMemory \div GiB

---------------------------------------------------------------------------
(* Properties of load_config, under SpecConfig.                            *)

BoolLike == {RawBool(TRUE), RawBool(FALSE), RawStr("true"), RawStr("false")}
Denotes(raw) == raw \in {RawBool(TRUE), RawStr("true")}

HasDisplayTable ==
    configFile.readable /\ configFile.toml_ok /\ configFile.has_display

\* C7: decoding the [Display] table succeeds exactly when each of the five
\* keys is there with a boolean or the string "true" or "false"; each flag
\* is then the boolean its value denotes; anything else is a parse error.
C7_StrictDecoding ==
    Returned /\ HasDisplayTable =>
        LET r == Unwrap(ret)
        IN /\ r.ok <=> \A k \in KeySet : configFile.display[k] \in BoolLike
           /\ r.ok => \A k \in KeySet :
                  Unwrap(r.val)[k] = Denotes(configFile.display[k])
           /\ ~r.ok => r = Err("toml::de::Error")

C7_Witness ==
    /\ Returned
    /\ HasDisplayTable
    /\ configFile.display["cpu_model"] = RawStr("true")
    /\ configFile.display["os"] = RawBool(TRUE)
    /\ configFile.display["ram"] = RawStr("false")
    /\ Unwrap(ret).ok
    /\ Unwrap(Unwrap(ret).val)["cpu_model"]
    /\ Unwrap(Unwrap(ret).val)["os"]
    /\ ~Unwrap(Unwrap(ret).val)["ram"]

---------------------------------------------------------------------------
(* Properties of get_battery_info, under SpecBattery.                      *)

DriverUp == batteryHost.manager_ok /\ batteryHost.batteries_ok
FirstDevice == Head(batteryHost.devices)
FirstIsBattery ==
    DriverUp /\ batteryHost.devices # <<>> /\ FirstDevice.ok

\* the line up to and including the state: "Battery: <p>% (<state>)"
LineWithoutSuffix(battery) ==
    "Battery: " \o ToString((battery.soc_permille * 100) \div 1000)
      \o "% (" \o battery.state \o ")"

\* " (<X>h<sep><Y>m <what>)" with X and Y the whole hours and the whole
\* minutes left of t seconds
Suffix(t, sep, what) ==
    " (" \o ToString(t \div 3600) \o "h" \o sep
      \o ToString((t % 3600) \div 60) \o "m " \o what \o ")"

\* the line of the first battery when its suffix is written with `sep`
\* between the hours and the minutes
LineWithEstimate(sep) ==
    IF FirstDevice.state = "Charging"
    THEN LineWithoutSuffix(FirstDevice)
           \o Suffix(Unwrap(FirstDevice.time_to_full), sep, "until full")
    ELSE LineWithoutSuffix(FirstDevice)
           \o Suffix(Unwrap(FirstDevice.time_to_empty), sep, "remaining")

HasEstimate ==
    /\ FirstIsBattery
    /\ \/ FirstDevice.state = "Charging" /\ IsSome(FirstDevice.time_to_full)
       \/ FirstDevice.state = "Discharging"
            /\ IsSome(FirstDevice.time_to_empty)

\* C4, as first stated: the suffix of a Charging battery with a time-to-full
\* of t seconds, or of a Discharging one with a time-to-empty of t seconds,
\* is " (XhYm until full)" or " (XhYm remaining)", nothing between the hours
\* and the minutes.
C4_SuffixWithoutSpace ==
    Returned /\ HasEstimate => ret = Some(Ok(LineWithEstimate("")))

\* C4, amended: the suffix is " (Xh Ym until full)" or " (Xh Ym remaining)",
\* X = t div 3600 and Y = (t mod 3600) div 60, with a leading space and one
\* space between the hours and the minutes.
C4_SuffixWithSpace ==
    Returned /\ HasEstimate => ret = Some(Ok(LineWithEstimate(" ")))

C4_Witness ==
    /\ Returned
    /\ FirstIsBattery
    /\ FirstDevice = Battery(999, "Charging", Some(3661), None)
    /\ ret = Some(Ok("Battery: 99% (Charging) (1h 1m until full)"))

WithTimeToFull(t) ==
    [batteryHost EXCEPT !.devices[1].time_to_full = t]
WithTimeToEmpty(t) ==
    [batteryHost EXCEPT !.devices[1].time_to_empty = t]

\* C5: the suffix is empty when the state is Full, Empty or Unknown, when
\* it is Charging with no time-to-full and when it is Discharging with no
\* time-to-empty; the line of a Charging battery does not depend on its
\* time-to-empty, nor that of a Discharging one on its time-to-full.
C5_EmptySuffix ==
    Returned /\ FirstIsBattery =>
        LET b == FirstDevice
        IN /\ b.state \in {"Full", "Empty", "Unknown"}
                => ret = Some(Ok(LineWithoutSuffix(b)))
           /\ b.state = "Charging" /\ ~IsSome(b.time_to_full)
                => ret = Some(Ok(LineWithoutSuffix(b)))
           /\ b.state = "Discharging" /\ ~IsSome(b.time_to_empty)
                => ret = Some(Ok(LineWithoutSuffix(b)))
           /\ b.state = "Charging"
                => \A t \in Estimates :
                       ret = Some(get_battery_info(WithTimeToEmpty(t)))
           /\ b.state = "Discharging"
                => \A t \in Estimates :
                       ret = Some(get_battery_info(WithTimeToFull(t)))

C5_Witness ==
    /\ Returned
    /\ FirstIsBattery
    /\ FirstDevice = Battery(999, "Charging", None, Some(3661))
    /\ ret = Some(Ok("Battery: 99% (Charging)"))

\* C6, as first stated: if any item of the enumeration is an error, the
\* function returns an error.
C6_AnyDeviceErrorPropagates ==
    Returned /\ DriverUp /\ (\E i \in DOMAIN batteryHost.devices :
                                 ~batteryHost.devices[i].ok)
        => ~Unwrap(ret).ok

\* C6, amended: if the first item of the enumeration is an error, the
\* function returns that error; it never skips an erroring item to report a
\* later one, and a report line is always that of the first item.  Items
\* behind the first are never taken, so an error behind a readable battery
\* is not reported.
C6_FirstDeviceErrorPropagates ==
    Returned /\ DriverUp /\ batteryHost.devices # <<>> =>
        /\ ~FirstDevice.ok
             => ret = Some(Err(BatteryDeviceError(FirstDevice.errno)))
        /\ Unwrap(ret).ok
             => /\ FirstDevice.ok
                /\ ret = Some(get_battery_info(
                             Driver(TRUE, TRUE, <<FirstDevice>>)))

C6_Witness ==
    /\ Returned
    /\ DriverUp
    /\ Len(batteryHost.devices) = 2
    /\ ~batteryHost.devices[1].ok
    /\ batteryHost.devices[2].ok
    /\ ret = Some(Err(BatteryDeviceError(batteryHost.devices[1].errno)))

---------------------------------------------------------------------------
(* Properties of main, under Spec.                                         *)

Exited == pc = "exited"
Succeeded == Exited /\ exit = Some(Ok("()"))
Failed == Exited /\ IsSome(exit) /\ ~Unwrap(exit).ok

Enabled(key) == IsSome(config) /\ Flag(key)

\* a field's line and its line break when the field is shown, else nothing
Shown(show, line) == IF show THEN line \o "\n" ELSE ""

CpuLine == Unwrap(get_cpu_info(cpus))
BatteryLine == Unwrap(get_battery_info(batteryHost).val)

\* what the hardware snapshot writes
CpuOutput == Shown(Enabled("cpu_model") /\ cpus # <<>>, CpuLine)

\* the report of a run that succeeds: the enabled fields, in the fixed order
ExpectedOutput ==
    CpuOutput
      \o Shown(Enabled("os"), OsReportLine)
      \o Shown(Enabled("uptime"), UptimeReportLine)
      \o Shown(Enabled("ram"), RamReportLine)
      \o Shown(Enabled("battery"), BatteryLine)

OnlyOsAndRam ==
    /\ Enabled("os") /\ Enabled("ram")
    /\ ~Enabled("cpu_model") /\ ~Enabled("uptime") /\ ~Enabled("battery")

\* C1: a run that succeeds has written exactly the enabled fields, in the
\* order CPU model, OS, Uptime, Ram, Battery, one line each (the CPU line
\* only if a CPU is enumerated), nothing for a disabled field and no blank
\* line; with only os and ram enabled that is two lines, OS then Ram,
\* whatever the battery driver and the CPU list hold.
C1_FixedFieldOrder ==
    Succeeded =>
        /\ stdout = ExpectedOutput
        /\ OnlyOsAndRam =>
               stdout = OsReportLine \o "\n" \o RamReportLine \o "\n"

\* only os and ram enabled, on a host whose battery manager would fail
C1_Witness ==
    /\ Succeeded
    /\ OnlyOsAndRam
    /\ ~batteryHost.manager_ok
    /\ cpus # <<>>
    /\ osHost.target_os = "linux" /\ ~IsSome(osHost.os_release)
    /\ totalMemory = GiB
    /\ stdout = "OS: Linux (Unknown Distro)\nRam: 1 Gb\n"

\* the file cannot be read or parsed into a DisplayConfig
ConfigUnusable ==
    \/ ~configFile.readable
    \/ ~configFile.toml_ok
    \/ ~configFile.has_display
    \/ \E k \in KeySet : configFile.display[k] \notin BoolLike

\* the manager cannot be initialized, or the enumeration fails
BatteryManagerFails == ~batteryHost.manager_ok
BatteryEnumerationFails ==
    /\ batteryHost.manager_ok
    /\ \/ ~batteryHost.batteries_ok
       \/ batteryHost.devices # <<>> /\ ~FirstDevice.ok

BatteryWanted ==
    ~ConfigUnusable /\ Denotes(configFile.display["battery"])

\* C2, as first stated: a run ends in an error whenever the config file
\* cannot be read or parsed, the battery manager cannot be initialized or
\* battery enumeration fails.
C2_FailsWheneverBatteryFails ==
    Exited /\ (ConfigUnusable \/ BatteryManagerFails \/ BatteryEnumerationFails)
        => Failed

\* C2, amended: a run ends in an error exactly when the config file cannot
\* be read or parsed, or battery is enabled and the battery manager cannot
\* be initialized or the enumeration fails; nothing runs after the error.
\* So a missing os-release or PRETTY_NAME, an empty CPU list, no battery
\* (the line "Battery: Not detected") and a missing estimate never fail a
\* run, and neither does a failing battery driver when battery is disabled.
C2_FailsOnlyOnConfigOrWantedBattery ==
    Exited =>
        /\ Failed <=>
               \/ ConfigUnusable
               \/ BatteryWanted
                    /\ (BatteryManagerFails \/ BatteryEnumerationFails)
        /\ Failed \/ Succeeded
        /\ ~ENABLED Next
        /\ Succeeded /\ BatteryWanted /\ batteryHost.devices = <<>>
             => report_lines[Len(report_lines)] = "Battery: Not detected"

\* battery enabled on a host with no CPU, no os-release and a failing manager
C2_Witness ==
    /\ Failed
    /\ BatteryWanted
    /\ BatteryManagerFails
    /\ cpus = <<>>
    /\ ~IsSome(osHost.os_release)
    /\ exit = Some(Err(BatteryManagerError))

\* the lines main has computed by the time it asks for the battery
CollectedFacts ==
    (IF Enabled("os") THEN <<OsReportLine>> ELSE <<>>)
      \o (IF Enabled("uptime") THEN <<UptimeReportLine>> ELSE <<>>)
      \o (IF Enabled("ram") THEN <<RamReportLine>> ELSE <<>>)

\* C9: a run whose config does not load prints nothing; a run that fails
\* after loading it had battery enabled, has printed the CPU line (if
\* enabled and a CPU exists) and nothing else, though the OS, Uptime and
\* Ram lines were computed; anything beyond the CPU line is on standard
\* output only once the run has succeeded.
C9_PartialOutputOnFailure ==
    /\ Failed /\ ConfigUnusable => stdout = ""
    /\ Failed /\ ~ConfigUnusable =>
           /\ Enabled("battery")
           /\ stdout = CpuOutput
           /\ report_lines = CollectedFacts
    /\ pc = "battery" => stdout = CpuOutput
    /\ stdout \notin {"", CpuOutput} => Succeeded

C9_Witness ==
    /\ Failed
    /\ Enabled("battery") /\ Enabled("cpu_model") /\ Enabled("os")
    /\ cpus # <<>>
    /\ stdout = CpuLine \o "\n"
    /\ Len(report_lines) = 3
    /\ report_lines[1] = OsReportLine

====
